---- MODULE Spec2Model ----
(***************************************************************************)
(* State-machine model of sitemap.py: the orchestrator check_sitemap, the  *)
(* helpers validate_xml, get_sitemap_urls, download_sitemap, get_top_urls, *)
(* the page classifier check_url_status and the __main__ wrapper.          *)
(*                                                                         *)
(* Text is modelled as a sequence of tokens (words, "/" and markup         *)
(* delimiters); Python's substring test is containment of a contiguous     *)
(* token sequence.  The network, the browser and the filesystem are the    *)
(* environment: every call into them draws its outcome from a small set.   *)
(***************************************************************************)
EXTENDS Integers, Sequences, FiniteSets, TLC

VARIABLES
    pc,               \* position of the single thread of control
    subsitemaps,      \* check_sitemap: list returned by get_sitemap_urls
    child,            \* check_sitemap: 1-based index of the loop over subsitemaps
    childLog,         \* console: the outcome logged for the previous subsitemap
    urls,             \* check_url_status: its argument
    i,                \* check_url_status: 1-based index of the loop over urls
    results,          \* check_url_status: the result list
    driver,           \* browser session: "none", "live" or "quit"
    quits,            \* number of driver.quit() calls on the current session
    status_code,      \* check_url_status local
    final_url,        \* check_url_status local
    initial_url,      \* check_url_status local
    rendered_content, \* check_url_status local
    waitExc,          \* what the inner except clause swallowed in this iteration
    files,            \* the working directory: file name -> content
    arg,              \* download_sitemap called on its own: its url argument
    response,         \* download_sitemap called on its own: the response it got
    ret,              \* download_sitemap called on its own: its return value
    lastEvent,        \* what the last step did
    exitCode          \* process exit code, None while running

vars == <<pc, subsitemaps, child, childLog, urls, i, results, driver, quits,
          status_code, final_url, initial_url, rendered_content, waitExc,
          files, arg, response, ret, lastEvent, exitCode>>

\* Python's None for a URL-valued local, and a missing HTML element
NoUrl == <<"None">>
NoElem == <<"<absent>">>

----------------------------------------------------------------------------
(* Bounds of the model *)

MaxChildren == 2      \* <sitemap><loc> entries in the root sitemap
MaxDocUrls == 2       \* <url><loc> entries in a child sitemap
MaxPathLen == 4       \* tokens in the path of a URL given to download_sitemap

(* Program constants *)

limit == 10               \* get_top_urls(limit=10)
MinContentSize == 5000    \* content_size < 5000
HTTP_OK == 200            \* response.status_code != 200
HTTP_NOT_FOUND == 404     \* status_code == 404

ERROR_404 == "- ERROR 404"
OK == "- OK"

----------------------------------------------------------------------------
(* Text helpers *)

Min(a, b) == IF a < b THEN a ELSE b

Last(s) == s[Len(s)]

\* sub in s
Contains(s, sub) ==
    \E k \in 0..(Len(s) - Len(sub)) : SubSeq(s, k + 1, k + Len(sub)) = sub

\* str.lower() on one token
LowerTok(t) ==
    CASE t = "Home" -> "home"
      [] t = "Menu" -> "menu"
      [] t = "Loading..." -> "loading..."
      [] t = "Product" -> "product"
      [] t = "X" -> "x"
      [] t = "Error" -> "error"
      [] t = "Page" -> "page"
      [] t = "Not" -> "not"
      [] t = "Found" -> "found"
      [] t = "Welcome" -> "welcome"
      [] t = "Route" -> "route"
      [] t = "Hello" -> "hello"
      [] OTHER -> t

\* str.lower()
Lower(s) == [k \in 1..Len(s) |-> LowerTok(s[k])]

IsSpace(t) == t = " "

RECURSIVE LStrip(_)
LStrip(s) == IF s # <<>> /\ IsSpace(Head(s)) THEN LStrip(Tail(s)) ELSE s

RECURSIVE RStrip(_)
RStrip(s) ==
    IF s # <<>> /\ IsSpace(Last(s)) THEN RStrip(SubSeq(s, 1, Len(s) - 1)) ELSE s

\* str.strip()
Strip(s) == RStrip(LStrip(s))

\* str.replace('/', '_')
Replace(s) == [k \in 1..Len(s) |-> IF s[k] = "/" THEN "_" ELSE s[k]]

RECURSIVE LastSlash(_)
LastSlash(s) ==
    IF s = <<>> THEN 0
    ELSE IF Last(s) = "/" THEN Len(s)
    ELSE LastSlash(SubSeq(s, 1, Len(s) - 1))

\* os.path.basename(urlparse(url).path): what follows the last "/"
Basename(path) == SubSeq(path, LastSlash(path) + 1, Len(path))

\* All sequences over S of length at most n
SeqsUpTo(S, n) == UNION {[1..k -> S] : k \in 0..n}

\* dict-like update of the working directory
WriteFile(fs, name, content) ==
    [n \in DOMAIN fs \cup {name} |-> IF n = name THEN content ELSE fs[n]]

----------------------------------------------------------------------------
(* The environment: HTTP responses *)

\* 500 stands for every status that is neither 200 nor 404
Statuses == {HTTP_OK, HTTP_NOT_FOUND, 500}

\* requests.get raised requests.RequestException
RequestError ==
    [kind |-> "error", status |-> 0, wellformed |-> FALSE, locs |-> <<>>, content |-> ""]

Resp(s, w, l, c) ==
    [kind |-> "response", status |-> s, wellformed |-> w, locs |-> l, content |-> c]

\* Paths of the child sitemaps the root sitemap may list
ChildPaths == { <<"/", "foo", "/", "bar.xml">>, <<"/", "foo", "/">> }

\* Page URLs (by path) a child sitemap may list
PageURLs == { <<"/", "p">>, <<"/", "q">> }

\* Raw bodies a sitemap download may return
Bodies == {"<urlset>1</urlset>", "<urlset>2</urlset>"}

\* Replies to a sitemap fetch, as far as the callers look at them
ErrorReplies ==
    { RequestError,
      Resp(HTTP_NOT_FOUND, TRUE, <<>>, ""),
      Resp(500, TRUE, <<>>, ""),
      Resp(HTTP_OK, FALSE, <<>>, "<urlset") }

ValidateReplies == ErrorReplies \cup {Resp(HTTP_OK, TRUE, <<>>, "")}

IndexReplies ==
    ErrorReplies \cup {Resp(HTTP_OK, TRUE, l, "") : l \in SeqsUpTo(ChildPaths, MaxChildren)}

SampleReplies ==
    ErrorReplies \cup {Resp(HTTP_OK, TRUE, l, "") : l \in SeqsUpTo(PageURLs, MaxDocUrls)}

DownloadRepliesWith(B) ==
    { RequestError,
      Resp(HTTP_NOT_FOUND, TRUE, <<>>, "not found"),
      Resp(500, TRUE, <<>>, "oops") }
    \cup {Resp(HTTP_OK, TRUE, <<>>, b) : b \in B}

\* Replies to the download of a child sitemap in a full run, and to a download
\* looked at on its own
MainDownloadReplies == DownloadRepliesWith({"<urlset>1</urlset>"})
DownloadReplies == DownloadRepliesWith(Bodies)

\* Outcomes of open(filename, ...) followed by f.write(...):
\* success, OSError from open, OSError from write after open truncated the file
WriteOutcomes == {"ok", "open_fails", "write_fails"}

(* File contents *)

NoPage == [size |-> 0, title |-> NoElem, h1 |-> NoElem, div |-> NoElem, other |-> <<>>]

FileOfBytes(b) == [kind |-> "bytes", body |-> b, page |-> NoPage]
FileOfPage(p) == [kind |-> "text", body |-> "", page |-> p]
EmptyFile == [kind |-> "empty", body |-> "", page |-> NoPage]

NoFiles == [n \in {} |-> EmptyFile]

----------------------------------------------------------------------------
(* The sitemap helpers, as functions of the reply the environment gives *)

\* validate_xml: (is_valid, message)
validate_xml(resp) ==
    IF resp.kind = "error" THEN <<FALSE, <<"Request error">>>>
    ELSE IF resp.status # HTTP_OK
         THEN <<FALSE, <<"HTTP", ToString(resp.status), "received">>>>
    ELSE IF ~resp.wellformed THEN <<FALSE, <<"Invalid XML structure">>>>
    ELSE <<TRUE, <<"Valid XML">>>>

\* get_sitemap_urls: the <sitemap><loc> texts, [] on any failure
get_sitemap_urls(resp) ==
    IF resp.kind = "error" THEN <<>>
    ELSE IF resp.status # HTTP_OK THEN <<>>
    ELSE IF ~resp.wellformed THEN <<>>
    ELSE resp.locs

\* get_top_urls: the first lim <url><loc> texts, [] on any failure
get_top_urls(resp, lim) ==
    IF resp.kind = "error" THEN <<>>
    ELSE IF resp.status # HTTP_OK THEN <<>>
    ELSE IF ~resp.wellformed THEN <<>>
    ELSE SubSeq(resp.locs, 1, Min(Len(resp.locs), lim))

\* A download that does not reject a URL without a basename
download_sitemap_noNameCheck(url, resp, wr, fs) ==
    LET filename == Basename(url) IN
    IF resp.kind = "error" THEN [ret |-> <<FALSE, <<"Download error">>>>, fs |-> fs]
    ELSE IF resp.status # HTTP_OK
         THEN [ret |-> <<FALSE, <<"Failed to download: HTTP", ToString(resp.status)>>>>,
               fs |-> fs]
    ELSE IF wr = "open_fails"
         THEN [ret |-> <<FALSE, <<"File write error">>>>, fs |-> fs]
    ELSE IF wr = "write_fails"
         THEN [ret |-> <<FALSE, <<"File write error">>>>,
               fs |-> WriteFile(fs, filename, EmptyFile)]
    ELSE [ret |-> <<TRUE, <<"Saved as">> \o filename>>,
          fs |-> WriteFile(fs, filename, FileOfBytes(resp.content))]

\* download_sitemap: the return value and the working directory it leaves
download_sitemap(url, resp, wr, fs) ==
    LET filename == Basename(url) IN
    IF resp.kind = "error" THEN [ret |-> <<FALSE, <<"Download error">>>>, fs |-> fs]
    ELSE IF resp.status # HTTP_OK
         THEN [ret |-> <<FALSE, <<"Failed to download: HTTP", ToString(resp.status)>>>>,
               fs |-> fs]
    ELSE IF filename = <<>>
         THEN [ret |-> <<FALSE, <<"Invalid filename in URL">>>>, fs |-> fs]
    ELSE IF wr = "open_fails"
         THEN [ret |-> <<FALSE, <<"File write error">>>>, fs |-> fs]
    ELSE IF wr = "write_fails"
         THEN [ret |-> <<FALSE, <<"File write error">>>>,
               fs |-> WriteFile(fs, filename, EmptyFile)]
    ELSE [ret |-> <<TRUE, <<"Saved as">> \o filename>>,
          fs |-> WriteFile(fs, filename, FileOfBytes(resp.content))]

----------------------------------------------------------------------------
(* Rendered pages and the soft-404 heuristics of check_url_status *)

Sizes == {MinContentSize - 1, MinContentSize, MinContentSize + 1}

Titles ==
    { NoElem, <<>>, <<"Home">>, <<"Menu">>, <<"Loading...">>, <<"Product", "X">>,
      <<"Home", "Page">>, <<"Error", "404">>, <<"Page", "Not", "Found">> }

H1s == { NoElem, <<"Welcome">>, <<"Route", "404">>, <<"Not", "Found">> }

Divs == { NoElem, <<"Hello">>, <<"Page", "not", "found">>, <<"Error", "404">> }

\* Markup outside title, h1 and div: nothing, padded bare text, a script
Others ==
    { <<>>, <<" ", "Loading...", " ">>, <<" ", " ">>,
      <<"<script>", "not", "found", "</script>">> }

AllPages == [size : Sizes, title : Titles, h1 : H1s, div : Divs, other : Others]

Page(n, t, h, d, o) == [size |-> n, title |-> t, h1 |-> h, div |-> d, other |-> o]

\* The pages the browser may render in a full run
MainPages ==
    { Page(MinContentSize - 1, <<"Product", "X">>, NoElem, <<"Hello">>, <<>>),
      Page(MinContentSize, <<"Product", "X">>, <<"Welcome">>, <<"Hello">>, <<>>),
      Page(MinContentSize, <<"Product", "X">>, NoElem, <<"Page", "not", "found">>, <<>>),
      Page(MinContentSize - 1, NoElem, NoElem, NoElem, <<"Page", "not", "found">>) }

Elem(tag, text) ==
    IF text = NoElem THEN <<>> ELSE <<"<" \o tag \o ">">> \o text \o <<"</" \o tag \o ">">>

\* driver.page_source as text
Content(p) == Elem("title", p.title) \o Elem("h1", p.h1) \o Elem("div", p.div) \o p.other

\* elem.string of the first such element, "" when there is none
ElemString(text) == IF text = NoElem THEN <<>> ELSE text

soft_404_indicators ==
    { <<"404", "page", "not", "found">>,
      <<"sorry...", "we", "seem", "to", "have", "lost", "this", "page", "between",
        "our", "fabric", "rolls">>,
      <<"page", "not", "found">>,
      <<"error", "404">>,
      <<"not", "found">> }

suspicious_titles == { <<"loading...">>, <<"menu">>, <<>>, <<"home">> }

\* A minimal-content test that also rejects a page of exactly 5000
Minimal_inclusive(p) ==
    \/ p.size <= MinContentSize
    \/ Lower(Strip(Content(p))) \in { <<"loading...">>, <<>> }

\* content_size < 5000 or rendered_content.strip().lower() in ["loading...", ""]
Minimal(p) ==
    \/ p.size < MinContentSize
    \/ Lower(Strip(Content(p))) \in { <<"loading...">>, <<>> }

\* The verdict of the title / phrase / heading / block checks
Heuristic(p) ==
    LET title == Lower(ElemString(p.title))
        content_lower == Lower(Content(p))
        h1_elements == IF ElemString(p.h1) = <<>> THEN {} ELSE {Lower(p.h1)}
        div_elements == IF ElemString(p.div) = <<>> THEN {} ELSE {Lower(p.div)}
    IN  IF \/ title \in suspicious_titles
           \/ Contains(title, <<"404">>)
           \/ Contains(title, <<"not", "found">>)
           \/ \E ind \in soft_404_indicators : Contains(content_lower, ind)
           \/ \E h1 \in h1_elements :
                 Contains(h1, <<"404">>) \/ Contains(h1, <<"not", "found">>)
           \/ \E d \in div_elements :
                 \E ind \in soft_404_indicators : Contains(d, ind)
        THEN ERROR_404
        ELSE OK

\* Statuses the plain fetch of a page may end with
PageStatuses == Statuses

\* Where the plain fetch may end after redirects
FinalUrls(u) == {u, <<"/", "q">>}

\* driver.current_url right after driver.get(url), and after the waits
InitialUrls(u) == {u, <<"/", "404">>}
CurrentUrls(init) == {init, <<"/", "404">>, <<"/", "x">>}

\* f"debug_{urlparse(final_url).path.replace('/', '_')}.html"
DebugName(u) == <<"debug_">> \o Replace(u) \o <<".html">>

----------------------------------------------------------------------------
(* State *)

orchVars == <<subsitemaps, child, childLog>>
callVars == <<urls, i, results, driver, quits>>
localVars == <<status_code, final_url, initial_url, rendered_content, waitExc>>
unitVars == <<arg, response, ret>>

Init ==
    /\ pc = "validate_root"
    /\ subsitemaps = <<>>
    /\ child = 0
    /\ childLog = "none"
    /\ urls = <<>>
    /\ i = 0
    /\ results = <<>>
    /\ driver = "none"
    /\ quits = 0
    /\ status_code = 0
    /\ final_url = NoUrl
    /\ initial_url = NoUrl
    /\ rendered_content = NoPage
    /\ waitExc = "none"
    /\ files = NoFiles
    /\ arg = NoUrl
    /\ response = RequestError
    /\ ret = <<FALSE, <<>>>>
    /\ lastEvent = "start"
    /\ exitCode = -1

\* The frame of check_url_status is gone: its locals hold nothing
ResetLocals ==
    /\ status_code' = 0
    /\ final_url' = NoUrl
    /\ initial_url' = NoUrl
    /\ rendered_content' = NoPage
    /\ waitExc' = "none"

\* check_sitemap returns; the script ends with exit code 0
Return(ev) ==
    /\ pc' = "exited"
    /\ exitCode' = 0
    /\ lastEvent' = ev

\* The loop over subsitemaps goes to its next item, or ends
Continue(line, ev) ==
    /\ childLog' = line
    /\ child' = child + 1
    /\ lastEvent' = ev
    /\ IF child < Len(subsitemaps)
       THEN pc' = "child_validate" /\ exitCode' = exitCode
       ELSE pc' = "exited" /\ exitCode' = 0

----------------------------------------------------------------------------
(* check_sitemap *)

ValidateRoot ==
    /\ pc = "validate_root"
    /\ \E resp \in ValidateReplies :
         IF validate_xml(resp)[1]
         THEN pc' = "index" /\ lastEvent' = "root_valid" /\ exitCode' = exitCode
         ELSE Return("root_invalid")
    /\ UNCHANGED <<orchVars, callVars, localVars, unitVars, files>>

GetSitemapUrls ==
    /\ pc = "index"
    /\ \E resp \in IndexReplies :
         /\ subsitemaps' = get_sitemap_urls(resp)
         /\ IF subsitemaps' = <<>>
            THEN Return("no_subsitemaps") /\ child' = child
            ELSE /\ pc' = "child_validate"
                 /\ child' = 1
                 /\ lastEvent' = "indexed"
                 /\ exitCode' = exitCode
    /\ UNCHANGED <<childLog, callVars, localVars, unitVars, files>>

ValidateChild ==
    /\ pc = "child_validate"
    /\ \E resp \in ValidateReplies :
         IF validate_xml(resp)[1]
         THEN /\ pc' = "child_download"
              /\ lastEvent' = "child_valid"
              /\ UNCHANGED <<child, childLog, exitCode>>
         ELSE Continue("invalid", "child_invalid")
    /\ UNCHANGED <<subsitemaps, callVars, localVars, unitVars, files>>

DownloadChild ==
    /\ pc = "child_download"
    /\ \E resp \in MainDownloadReplies, wr \in WriteOutcomes :
         LET d == download_sitemap(subsitemaps[child], resp, wr, files) IN
         /\ files' = d.fs
         /\ IF d.ret[1]
            THEN /\ pc' = "child_sample"
                 /\ lastEvent' = "downloaded"
                 /\ UNCHANGED <<child, childLog, exitCode>>
            ELSE Continue("download failed", "download_failed")
    /\ UNCHANGED <<subsitemaps, callVars, localVars, unitVars>>

SampleChild ==
    /\ pc = "child_sample"
    /\ \E resp \in SampleReplies :
         LET top == get_top_urls(resp, limit) IN
         IF top = <<>>
         THEN Continue("no urls", "no_urls") /\ urls' = top
         ELSE /\ urls' = top
              /\ pc' = "classify_setup"
              /\ lastEvent' = "sampled"
              /\ UNCHANGED <<child, childLog, exitCode>>
    /\ UNCHANGED <<subsitemaps, i, results, driver, quits, localVars, unitVars,
                   files>>

----------------------------------------------------------------------------
(* check_url_status *)

\* The for loop takes its next url, or ends and control reaches the finally clause
Advance ==
    /\ i' = i + 1
    /\ pc' = IF i < Len(urls) THEN "url_fetch" ELSE "batch_end"

\* results.append((url, label)) followed by continue / the end of the loop body
Classify(label, ev) ==
    /\ results' = Append(results, <<urls[i], label>>)
    /\ lastEvent' = ev
    /\ Advance

\* A handler that logs the error and appends nothing
Handler_logsOnly(ev) ==
    /\ results' = results
    /\ lastEvent' = ev
    /\ Advance

\* except (requests.RequestException, Exception): append "- ERROR 404"
Handler(ev) == Classify(ERROR_404, ev)

\* results = []; driver = webdriver.Chrome(...), which may raise outside any try
StartDriver ==
    /\ pc = "classify_setup"
    /\ results' = <<>>
    /\ \/ /\ driver' = "live"
          /\ quits' = 0
          /\ i' = 1
          /\ pc' = "url_fetch"
          /\ lastEvent' = "driver_started"
          /\ UNCHANGED <<urls, exitCode>>
       \/ /\ pc' = "exited"
          /\ exitCode' = 1
          /\ lastEvent' = "exc_driver"
          /\ urls' = <<>>
          /\ UNCHANGED <<driver, quits, i>>
    /\ UNCHANGED <<orchVars, localVars, unitVars, files>>

\* A fetch whose 404 branch appends the label and forgets the continue
FetchUrl_noContinue ==
    /\ pc = "url_fetch"
    /\ initial_url' = NoUrl
    /\ rendered_content' = NoPage
    /\ waitExc' = "none"
    /\ \/ /\ status_code' = 0
          /\ final_url' = NoUrl
          /\ Handler("exc_fetch")
       \/ \E s \in PageStatuses, f \in FinalUrls(urls[i]) :
            /\ status_code' = s
            /\ final_url' = f
            /\ results' = IF s = HTTP_NOT_FOUND
                          THEN Append(results, <<urls[i], ERROR_404>>)
                          ELSE results
            /\ pc' = "url_nav"
            /\ lastEvent' = IF s = HTTP_NOT_FOUND THEN "fast404" ELSE "fetched"
            /\ i' = i
    /\ UNCHANGED <<orchVars, urls, driver, quits, unitVars, files, exitCode>>

\* requests.get(url, ...); status_code == 404 is the fast path
FetchUrl ==
    /\ pc = "url_fetch"
    /\ initial_url' = NoUrl
    /\ rendered_content' = NoPage
    /\ waitExc' = "none"
    /\ \/ /\ status_code' = 0
          /\ final_url' = NoUrl
          /\ Handler("exc_fetch")
       \/ \E s \in PageStatuses, f \in FinalUrls(urls[i]) :
            /\ status_code' = s
            /\ final_url' = f
            /\ IF s = HTTP_NOT_FOUND
               THEN Classify(ERROR_404, "fast404")
               ELSE /\ pc' = "url_nav"
                    /\ lastEvent' = "fetched"
                    /\ UNCHANGED <<i, results>>
    /\ UNCHANGED <<orchVars, urls, driver, quits, unitVars, files, exitCode>>

\* driver.get(url); initial_url = driver.current_url
Navigate ==
    /\ pc = "url_nav"
    /\ \/ /\ Handler("exc_nav")
          /\ UNCHANGED initial_url
       \/ /\ initial_url' \in InitialUrls(urls[i])
          /\ pc' = "url_wait"
          /\ lastEvent' = "navigated"
          /\ UNCHANGED <<i, results>>
    /\ UNCHANGED <<orchVars, urls, driver, quits, status_code, final_url,
                   rendered_content, waitExc, unitVars, files, exitCode>>

\* The two WebDriverWait(...).until(...) and the check for a JS redirect to /404;
\* whatever is raised in them lands in the bare except clause
WaitForPage ==
    /\ pc = "url_wait"
    /\ initial_url' = NoUrl    \* not read again in this iteration
    /\ \/ /\ waitExc' = "error"
          /\ pc' = "url_sleep"
          /\ lastEvent' = "exc_wait"
          /\ UNCHANGED <<i, results>>
       \/ \E current_url \in CurrentUrls(initial_url) :
            /\ waitExc' = waitExc
            /\ IF current_url # initial_url /\ Contains(Lower(current_url), <<"/", "404">>)
               THEN Classify(ERROR_404, "redirect404")
               ELSE /\ pc' = "url_capture"
                    /\ lastEvent' = "waited"
                    /\ UNCHANGED <<i, results>>
    /\ UNCHANGED <<orchVars, urls, driver, quits, status_code, final_url,
                   rendered_content, unitVars, files, exitCode>>

\* except: time.sleep(7)
FallbackSleep ==
    /\ pc = "url_sleep"
    /\ pc' = "url_capture"
    /\ lastEvent' = "slept"
    /\ UNCHANGED <<orchVars, callVars, localVars, unitVars, files, exitCode>>

\* rendered_content = driver.page_source; the minimal-content check
CapturePage ==
    /\ pc = "url_capture"
    /\ \/ /\ Handler("exc_capture")
          /\ UNCHANGED rendered_content
       \/ \E page \in MainPages :
            /\ rendered_content' = page
            /\ IF Minimal(page)
               THEN Classify(ERROR_404, "minimal404")
               ELSE /\ pc' = "url_parse"
                    /\ lastEvent' = "captured"
                    /\ UNCHANGED <<i, results>>
    /\ UNCHANGED <<orchVars, urls, driver, quits, status_code, final_url, initial_url,
                   waitExc, unitVars, files, exitCode>>

\* BeautifulSoup(rendered_content, 'html.parser') and the heuristic verdict
ParseAndClassify ==
    /\ pc = "url_parse"
    /\ \/ Handler("exc_parse")
       \/ /\ results' = Append(results, <<urls[i], Heuristic(rendered_content)>>)
          /\ pc' = "url_debug"
          /\ lastEvent' = "verdict"
          /\ i' = i
    /\ UNCHANGED <<orchVars, urls, driver, quits, localVars, unitVars, files, exitCode>>

\* A debug write that names the file from the requested url, not the final one
WriteDebug_namedFromUrl ==
    /\ pc = "url_debug"
    /\ \E wr \in WriteOutcomes :
         CASE wr = "ok" ->
                /\ files' = WriteFile(files, DebugName(urls[i]), FileOfPage(rendered_content))
                /\ lastEvent' = "debug_written"
                /\ results' = results
                /\ Advance
           [] wr = "open_fails" ->
                /\ files' = files
                /\ Handler("exc_debug")
           [] wr = "write_fails" ->
                /\ files' = WriteFile(files, DebugName(urls[i]), EmptyFile)
                /\ Handler("exc_debug")
    /\ UNCHANGED <<orchVars, urls, driver, quits, localVars, unitVars, exitCode>>

\* with open(snippet_file, 'w', encoding='utf-8') as f: f.write(rendered_content)
WriteDebug ==
    /\ pc = "url_debug"
    /\ \E wr \in WriteOutcomes :
         CASE wr = "ok" ->
                /\ files' = WriteFile(files, DebugName(final_url), FileOfPage(rendered_content))
                /\ lastEvent' = "debug_written"
                /\ results' = results
                /\ Advance
           [] wr = "open_fails" ->
                /\ files' = files
                /\ Handler("exc_debug")
           [] wr = "write_fails" ->
                /\ files' = WriteFile(files, DebugName(final_url), EmptyFile)
                /\ Handler("exc_debug")
    /\ UNCHANGED <<orchVars, urls, driver, quits, localVars, unitVars, exitCode>>

\* finally: driver.quit(); return results
QuitDriver ==
    /\ pc = "batch_end"
    /\ driver' = "quit"
    /\ quits' = quits + 1
    /\ pc' = "log"
    /\ lastEvent' = "returned"
    /\ ResetLocals
    /\ UNCHANGED <<orchVars, urls, i, results, unitVars, files, exitCode>>

\* for url, status_message in results: logger.info(...); next subsitemap
LogResults ==
    /\ pc = "log"
    /\ Continue("classified", "logged")
    /\ urls' = <<>>
    /\ results' = <<>>
    /\ i' = 0
    /\ UNCHANGED <<subsitemaps, driver, quits, localVars, unitVars, files>>

----------------------------------------------------------------------------
(* KeyboardInterrupt and the __main__ wrapper *)

InCall == {"url_fetch", "url_nav", "url_wait", "url_sleep", "url_capture", "url_parse",
           "url_debug", "batch_end"}

Running == {"validate_root", "index", "child_validate", "child_download", "child_sample",
            "classify_setup", "log"} \cup InCall

\* An interrupt that leaves check_url_status without running a finally clause
Interrupt_noFinally ==
    /\ pc \in Running
    /\ IF pc = "url_wait"
       THEN /\ waitExc' = "interrupt"
            /\ pc' = "url_sleep"
            /\ lastEvent' = "interrupt_swallowed"
            /\ initial_url' = NoUrl
            /\ UNCHANGED <<callVars, status_code, final_url, rendered_content, exitCode>>
       ELSE /\ pc' = "exited"
            /\ exitCode' = 0
            /\ lastEvent' = "interrupt"
            /\ urls' = <<>>
            /\ i' = 0
            /\ results' = <<>>
            /\ ResetLocals
            /\ UNCHANGED <<driver, quits>>
    /\ UNCHANGED <<orchVars, unitVars, files>>

\* A KeyboardInterrupt raised at the current position.  Inside the waits the bare
\* except clause catches it; elsewhere it propagates, through the finally clause
\* when inside check_url_status, to "except KeyboardInterrupt: sys.exit(0)".
Interrupt ==
    /\ pc \in Running
    /\ IF pc = "url_wait"
       THEN /\ waitExc' = "interrupt"
            /\ pc' = "url_sleep"
            /\ lastEvent' = "interrupt_swallowed"
            /\ initial_url' = NoUrl
            /\ UNCHANGED <<callVars, status_code, final_url, rendered_content, exitCode>>
       ELSE /\ pc' = "exited"
            /\ exitCode' = 0
            /\ lastEvent' = "interrupt"
            /\ urls' = <<>>
            /\ i' = 0
            /\ results' = <<>>
            /\ ResetLocals
            /\ IF pc \in InCall
               THEN driver' = "quit" /\ quits' = quits + 1
               ELSE UNCHANGED <<driver, quits>>
    /\ UNCHANGED <<orchVars, unitVars, files>>

Next ==
    \/ ValidateRoot
    \/ GetSitemapUrls
    \/ ValidateChild
    \/ DownloadChild
    \/ SampleChild
    \/ StartDriver
    \/ FetchUrl
    \/ Navigate
    \/ WaitForPage
    \/ FallbackSleep
    \/ CapturePage
    \/ ParseAndClassify
    \/ WriteDebug
    \/ QuitDriver
    \/ LogResults
    \/ Interrupt

Spec == Init /\ [][Next]_vars

----------------------------------------------------------------------------
(* download_sitemap called on its own, on any short path and in a working   *)
(* directory that may already hold files                                   *)

PathTokens == {"/", "foo", "bar.xml"}

InitialDirs ==
    { NoFiles,
      WriteFile(NoFiles, <<"bar.xml">>, FileOfBytes("old")),
      WriteFile(NoFiles, <<"foo">>, FileOfBytes("old")) }

Idle ==
    /\ subsitemaps = <<>>
    /\ child = 0
    /\ childLog = "none"
    /\ urls = <<>>
    /\ i = 0
    /\ results = <<>>
    /\ driver = "none"
    /\ quits = 0
    /\ status_code = 0
    /\ final_url = NoUrl
    /\ initial_url = NoUrl
    /\ waitExc = "none"
    /\ response = RequestError
    /\ ret = <<FALSE, <<>>>>
    /\ lastEvent = "start"
    /\ exitCode = -1

InitDownload ==
    /\ Idle
    /\ pc = "download_call"
    /\ arg \in SeqsUpTo(PathTokens, MaxPathLen)
    /\ files \in InitialDirs
    /\ rendered_content = NoPage

DownloadCall ==
    /\ pc = "download_call"
    /\ \E resp \in DownloadReplies, wr \in WriteOutcomes :
         LET d == download_sitemap(arg, resp, wr, files) IN
         /\ response' = resp
         /\ ret' = d.ret
         /\ files' = d.fs
    /\ pc' = "download_done"
    /\ lastEvent' = "download_returned"
    /\ UNCHANGED <<orchVars, callVars, localVars, arg, exitCode>>

NextDownload == DownloadCall

SpecDownload == InitDownload /\ [][NextDownload]_vars

----------------------------------------------------------------------------
(* The content checks of check_url_status on any rendered page: the         *)
(* minimal-content test followed by the heuristic verdict                   *)

PageVerdict(p) == IF Minimal(p) THEN ERROR_404 ELSE Heuristic(p)

InitPage ==
    /\ Idle
    /\ pc = "page_call"
    /\ arg = <<"/", "p">>
    /\ files = NoFiles
    /\ rendered_content \in AllPages

ClassifyPage ==
    /\ pc = "page_call"
    /\ results' = << <<arg, PageVerdict(rendered_content)>> >>
    /\ pc' = "page_done"
    /\ lastEvent' = IF Minimal(rendered_content) THEN "minimal404" ELSE "verdict"
    /\ UNCHANGED <<orchVars, urls, i, driver, quits, localVars, unitVars, files, exitCode>>

NextPage == ClassifyPage

SpecPage == InitPage /\ [][NextPage]_vars

----------------------------------------------------------------------------
(* Properties *)

Labels == {OK, ERROR_404}

\* Steps of the per-URL procedure that end in the handler of the outer try
HandlerEvents == {"exc_fetch", "exc_nav", "exc_capture", "exc_parse", "exc_debug"}

PerUrlPcs == {"url_nav", "url_wait", "url_sleep", "url_capture", "url_parse", "url_debug"}

\* C1: when check_url_status has returned, its result list holds exactly one
\* (url, label) pair per input URL, in the order of the input, whichever path
\* each URL took.
C1_OnePairPerUrl ==
    pc = "log" =>
        /\ Len(results) = Len(urls)
        /\ \A k \in 1..Len(results) : results[k][1] = urls[k] /\ results[k][2] \in Labels

\* C1: the state the code reaches instead, a URL with two entries: its verdict
\* and the handler's "- ERROR 404" after the debug-file write raised.
C1_TwoEntries ==
    /\ pc = "log"
    /\ Len(urls) = 1
    /\ Len(results) = 2
    /\ results[1] = <<urls[1], OK>>
    /\ results[2] = <<urls[1], ERROR_404>>

\* C2: once the browser session exists it is quit exactly once on every way out
\* of check_url_status (normal end of the loop, or an interrupt escaping it,
\* per-URL exceptions having been handled inside the loop); the session is live
\* for as long as control is in the loop, so nothing navigates on a session that
\* has been quit, and it is never live outside the call.
C2_QuitExactlyOnce ==
    /\ quits \in {0, 1}
    /\ (driver = "live") <=> (pc \in InCall)
    /\ driver = "live" => quits = 0
    /\ driver = "quit" => quits = 1
    /\ lastEvent = "navigated" => driver = "live"
    /\ pc = "log" => driver = "quit"

\* C2: the call returned after an exception was raised mid-loop (the surplus
\* entry is the handler's), with the session quit once.
C2_Witness ==
    /\ pc = "log"
    /\ Len(results) > Len(urls)
    /\ driver = "quit"
    /\ quits = 1

\* C8: a URL whose plain fetch ends with 404 is classified "- ERROR 404" at once
\* and the loop goes on without any browser step for it; the browser steps of a
\* URL happen only after its plain fetch completed with a status other than 404.
C8_FastPath ==
    /\ lastEvent = "fast404" =>
          /\ status_code = HTTP_NOT_FOUND
          /\ pc \in {"url_fetch", "batch_end"}
          /\ results # <<>>
          /\ Last(results) = <<urls[i - 1], ERROR_404>>
          /\ initial_url = NoUrl
          /\ rendered_content = NoPage
    /\ pc \in PerUrlPcs => status_code \in Statuses \ {HTTP_NOT_FOUND}
    /\ lastEvent = "navigated" => status_code \in Statuses \ {HTTP_NOT_FOUND}

\* C8: a 404 on the first of two URLs, the loop now at the second.
C8_Witness ==
    /\ lastEvent = "fast404"
    /\ Len(urls) = 2
    /\ i = 2
    /\ pc = "url_fetch"
    /\ results = << <<urls[1], ERROR_404>> >>

\* C3 (as stated): every exception raised in the per-URL procedure, the waits
\* included, is caught inside the loop and leaves the URL classified
\* "- ERROR 404"; none leaves check_url_status.
C3_AnyExceptionIs404 ==
    /\ lastEvent \in HandlerEvents =>
          /\ pc \in {"url_fetch", "batch_end"}
          /\ results # <<>>
          /\ Last(results) = <<urls[i - 1], ERROR_404>>
    /\ (waitExc = "error" /\ lastEvent = "verdict") =>
          Last(results) = <<urls[i], ERROR_404>>
    /\ (pc = "exited" /\ exitCode = 1) => lastEvent = "exc_driver"

\* C3 (amended): an exception raised by the plain fetch, the navigation, the
\* page capture, the parse or the debug-file write is caught by the loop's
\* handler, which appends (url, "- ERROR 404") and moves to the next URL or the
\* end of the loop; an exception raised in the waits is caught by the inner
\* except clause, which only falls back to the sleep, after which the procedure
\* goes on and may still classify the URL "- OK"; the session stays live and the only error that
\* ends the process is the one raised while starting the browser.
C3_HandledInsideLoop ==
    /\ lastEvent \in HandlerEvents =>
          /\ pc \in {"url_fetch", "batch_end"}
          /\ driver = "live"
          /\ results # <<>>
          /\ Last(results) = <<urls[i - 1], ERROR_404>>
    /\ lastEvent = "exc_wait" =>
          /\ pc = "url_sleep"
          /\ waitExc = "error"
          /\ driver = "live"
    /\ (pc = "exited" /\ exitCode = 1) => lastEvent = "exc_driver"

\* C3: the navigation of the first of two URLs raised; the handler classified
\* it and the loop is at the second URL.
C3_Witness ==
    /\ lastEvent = "exc_nav"
    /\ Len(urls) = 2
    /\ pc = "url_fetch"
    /\ i = 2
    /\ results = << <<urls[1], ERROR_404>> >>

C5_BatchNeverAborted ==
    (pc = "exited" /\ lastEvent # "interrupt" /\ subsitemaps # <<>>) =>
        child = Len(subsitemaps) + 1

\* C6, the gating part: each step runs only after the step before it succeeded.
C6_Gating ==
    /\ pc = "index" => lastEvent = "root_valid"
    /\ pc = "child_validate" => (subsitemaps # <<>> /\ child \in 1..Len(subsitemaps))
    /\ pc = "child_download" => lastEvent = "child_valid"
    /\ pc = "child_sample" => lastEvent = "downloaded"
    /\ pc = "classify_setup" => (lastEvent = "sampled" /\ urls # <<>>)
    /\ driver = "live" => urls # <<>>
    /\ childLog \in {"invalid", "download failed", "no urls"} =>
          (lastEvent \in {"child_invalid", "download_failed", "no_urls"} => results = <<>>)

\* A rendered page whose text says "page not found"
SaysPageNotFound(p) == Contains(Lower(Content(p)), <<"page", "not", "found">>)

\* C6, the end-to-end scenario: two children, the first invalid, the second with
\* one URL whose plain fetch is 200 and whose rendered page says "Page not
\* found": the classifier is about to return exactly one entry,
\* (url, "- ERROR 404").
C6_Scenario ==
    ( /\ pc = "batch_end"
      /\ Len(subsitemaps) = 2
      /\ child = 2
      /\ childLog = "invalid"
      /\ Len(urls) = 1
      /\ status_code = HTTP_OK
      /\ rendered_content # NoPage
      /\ SaysPageNotFound(rendered_content) )
    => results = << <<urls[1], ERROR_404>> >>

\* C6: the steps gate one another and the end-to-end scenario yields exactly one
\* entry.
C6_OrderAndScenario == C6_Gating /\ C6_Scenario

\* C7: an interrupt at any point makes the process exit with code 0, an error
\* escaping check_sitemap makes it exit with code 1, and any other run ends with
\* code 0.
C7_ExitCodes ==
    /\ lastEvent \in {"interrupt", "interrupt_swallowed"} => (pc = "exited" /\ exitCode = 0)
    /\ lastEvent = "exc_driver" => (pc = "exited" /\ exitCode = 1)
    /\ (pc = "exited" /\ lastEvent # "exc_driver") => exitCode = 0
    /\ pc # "exited" => exitCode = -1

\* The status was 200 and the URL's path has a basename
Downloadable(url, resp) ==
    resp.kind = "response" /\ resp.status = HTTP_OK /\ Basename(url) # <<>>

\* C9 (as stated): on a 200 for a URL with a basename download_sitemap writes
\* the response body to the file of that name and returns success; otherwise
\* it returns failure and the working directory is as it was.
C9_DownloadWritesOrLeaves ==
    [][ pc = "download_call" =>
          IF Downloadable(arg, response')
          THEN /\ ret' = <<TRUE, <<"Saved as">> \o Basename(arg)>>
               /\ files' = WriteFile(files, Basename(arg), FileOfBytes(response'.content))
          ELSE /\ ret'[1] = FALSE
               /\ files' = files
      ]_vars

\* C9 (amended): on a 200 for a URL with a basename download_sitemap either
\* writes the response body to the file of that name, changing no other file,
\* and returns success, or, when opening or writing the file raises OSError,
\* returns (False, "File write error ...") with the file untouched or left
\* empty; on a non-200 status, a request error or a path without basename it
\* returns failure and the working directory is as it was.
C9_DownloadUnlessWriteError ==
    [][ pc = "download_call" =>
          IF Downloadable(arg, response')
          THEN \/ /\ ret' = <<TRUE, <<"Saved as">> \o Basename(arg)>>
                  /\ files' = WriteFile(files, Basename(arg), FileOfBytes(response'.content))
               \/ /\ ret' = <<FALSE, <<"File write error">>>>
                  /\ files' \in {files, WriteFile(files, Basename(arg), EmptyFile)}
          ELSE /\ ret'[1] = FALSE
               /\ ret'[2] \in { <<"Download error">>, <<"Invalid filename in URL">>,
                                <<"Failed to download: HTTP", "404">>,
                                <<"Failed to download: HTTP", "500">> }
               /\ files' = files
      ]_vars

\* C9: .../foo/bar.xml was downloaded over an older bar.xml, which now holds the
\* response body.
C9_Witness ==
    /\ pc = "download_done"
    /\ arg = <<"/", "foo", "/", "bar.xml">>
    /\ response.kind = "response"
    /\ response.status = HTTP_OK
    /\ ret = <<TRUE, <<"Saved as", "bar.xml">>>>
    /\ files = WriteFile(NoFiles, <<"bar.xml">>, FileOfBytes(response.content))

\* No soft-404 phrase anywhere in the lowercased rendered HTML
NoIndicator(p) == \A ind \in soft_404_indicators : ~Contains(Lower(Content(p)), ind)

\* C10 (as stated): a rendered page of at least 5000 with title "Product X" and
\* no soft-404 phrase is classified "- OK"; a page titled exactly "Home" is
\* classified "- ERROR 404" whatever else it holds.
C10_ProductOkHome404 ==
    pc = "page_done" =>
        LET p == rendered_content
            label == results[1][2]
        IN  /\ (p.size >= MinContentSize /\ p.title = <<"Product", "X">> /\ NoIndicator(p))
                  => label = OK
            /\ p.title = <<"Home">> => label = ERROR_404

\* C10 (amended): a rendered page of at least 5000 with title "Product X", no
\* soft-404 phrase anywhere in its lowercased HTML and no h1 whose text contains
\* "404" is classified "- OK"; a page titled exactly "Home" is classified
\* "- ERROR 404" whatever else it holds.
C10_ProductOkUnlessH1Has404 ==
    pc = "page_done" =>
        LET p == rendered_content
            label == results[1][2]
        IN  /\ ( /\ p.size >= MinContentSize
                 /\ p.title = <<"Product", "X">>
                 /\ NoIndicator(p)
                 /\ ~Contains(Lower(ElemString(p.h1)), <<"404">>) )
                  => label = OK
            /\ p.title = <<"Home">> => label = ERROR_404

\* C10: a page of exactly 5000 titled "Product X" with a clean heading and block
\* got "- OK".
C10_Witness ==
    /\ pc = "page_done"
    /\ rendered_content =
          Page(MinContentSize, <<"Product", "X">>, <<"Welcome">>, <<"Hello">>, <<>>)
    /\ results = << <<arg, OK>> >>

====
